---- MODULE Spec2Model ----
(***************************************************************************)
(* A model of the transport core of caffix/resolvers:                      *)
(*   - the exchange table  (xchg.go: request, xchgMgr)                     *)
(*   - the connection pool (connection, connections)                       *)
(* Every method of xchgMgr holds the table mutex from its first statement  *)
(* to its return, so each method is one atomic action.  The methods of     *)
(* connections do the same with the pool mutex; newConnections holds it    *)
(* over several steps, and rotations() calls rotate() in a step of its own *)
(* before rotate() gets the lock.                                          *)
(***************************************************************************)
EXTENDS Integers, Sequences, FiniteSets, TLC

\* ------------------------------------------------------------------ bounds
MaxReqs == 2          \* request records the callers create in one run
MaxTime == 3          \* the clock runs from 1 to MaxTime
MaxCpus == 2          \* target pool sizes 0..MaxCpus
MaxSocks == 4         \* sockets the host lets the process create in one run
MaxNexts == 4         \* Next calls recorded between two changes of the sequence
MaxDgrams == 2        \* datagrams that arrive in one run
MaxLoopSocks == 2     \* sockets a run has created when its last followed rotation starts

\* ------------------------------------------------------- program constants
RcodeNoResponse == 50 \* xchg.go:18
QueryTimeout == 1     \* xchg.go:21 (time.Second; the clock counts seconds)
RcodeSuccess == 0     \* the response code of a message that was not mutated

NIL == 0              \* a nil *request (record ids start at 1)
ZeroTime == 0         \* time.Time{} : Timestamp.IsZero()
ChanCap == 1          \* the record's single-slot delivery channel
headerSize == 12      \* const headerSize of the pool

IDs == {1, 2}
\* the names callers register (fully qualified, as sent) and the spellings of
\* them that a lookup may carry (as echoed in a response)
Names == {<<"A", ".">>}
LookupNames == {<<"A", ".">>, <<"a">>}

\* for the key derivation alone: one- and two-digit IDs, the spellings callers
\* register and, none of them among those, the spellings lookups carry
KeyIDs == {1, 12}
KeyAddNames == {<<"A", ".">>, <<"a">>, <<"B">>}
KeyLookupNames == {<<"A">>, <<"a", ".">>, <<"a", ".", ".">>}

VARIABLES
  xchgs,    \* xchgMgr.xchgs : map from key to record id
  reqs,     \* the request records created so far (the heap; index = pointer)
  now,      \* time.Now()
  st,       \* per record: where it is in its lifecycle
  ret,      \* per record: how many times a removal call has returned it
  last,     \* what the last table call returned: its error, its records
  drained   \* the shutdown drain (removeAll) has run

VARIABLES
  ctor,      \* newConnections: "new", "adding", "closing", "returned", "failed"
  mu,        \* connections.Mutex: "free", or who holds it across several steps
  cpus,      \* connections.cpus
  conns,     \* connections.conns (socket ids, in order)
  connsNil,  \* connections.conns == nil
  nextWrite, \* connections.nextWrite
  poolDone,  \* connections.done is closed
  socks,     \* every connection created: its done signal, its read loop, its close task
  rot,       \* rotations(): "off", "select", "rotate" (in rotate(), at r.Lock()), "exit"
  resps,     \* connections.resps, the output queue
  ndgram,    \* datagrams received so far, over all sockets
  panicked,  \* the runtime panic that ended the process, or ""
  nexts,     \* what the Next calls returned since the sequence last changed
  closed,    \* a Close call has returned
  plast      \* the last Next or WriteMsg call: its result

xvars == <<xchgs, reqs, now, st, ret, last, drained>>
pvars == <<ctor, mu, cpus, conns, connsNil, nextWrite, poolDone, socks, rot, resps,
           ndgram, panicked, nexts, closed, plast>>
vars == <<xvars, pvars>>

\* ---------------------------------------------------------------- xchgKey
Digit(n) == <<"0", "1", "2", "3", "4", "5", "6", "7", "8", "9">>[n + 1]

RECURSIVE Itoa(_)
Itoa(n) == IF n < 10 THEN <<Digit(n)>> ELSE Itoa(n \div 10) \o <<Digit(n % 10)>>

LowerChar(c) == CASE c = "A" -> "a" [] c = "B" -> "b" [] OTHER -> c

ToLower(s) == [i \in DOMAIN s |-> LowerChar(s[i])]

RemoveLastDot(name) ==
  IF Len(name) > 0 /\ name[Len(name)] = "." THEN SubSeq(name, 1, Len(name) - 1) ELSE name

xchgKeyRaw(id, name) == Itoa(id) \o <<":">> \o name

xchgKey(id, name) == Itoa(id) \o <<":">> \o ToLower(RemoveLastDot(name))

\* ------------------------------------------------------------ map helpers
Found(m, k) == k \in DOMAIN m

LookupCleared(m, k) == NIL

Lookup(m, k) == IF k \in DOMAIN m THEN m[k] ELSE NIL

MapSet(m, k, v) == [x \in DOMAIN m \cup {k} |-> IF x = k THEN v ELSE m[x]]

MapDeleteKeeps(m, k) == m

MapDelete(m, k) == [x \in DOMAIN m \ {k} |-> m[x]]

deleteLeavesKeys(m, keys) ==
  [removed |-> [i \in DOMAIN keys |-> IF keys[i] \in DOMAIN m THEN m[keys[i]] ELSE NIL],
   xchgs |-> m]

\* xchgMgr.delete: the records under keys, in order, and the table without them
RECURSIVE delete(_, _)
delete(m, keys) ==
  IF keys = <<>> THEN [removed |-> <<>>, xchgs |-> m]
  ELSE LET k == Head(keys)
           rest == delete(MapDelete(m, k), Tail(keys))
       IN [removed |-> <<Lookup(m, k)>> \o rest.removed, xchgs |-> rest.xchgs]

\* Go ranges over a map in an unspecified order: every order of the chosen keys
Orders(S) == {s \in [1..Cardinality(S) -> S] : \A i, j \in DOMAIN s : i # j => s[i] # s[j]}

IsExpiredAtDeadline(req, t) == req.Timestamp # ZeroTime /\ t >= req.Timestamp + QueryTimeout

IsExpired(req, t) == req.Timestamp # ZeroTime /\ t > req.Timestamp + QueryTimeout

ExpiredKeys(m, t) == {k \in DOMAIN m : IsExpired(reqs[m[k]], t)}

AllKeys(m) == DOMAIN m

\* ------------------------------------------------------------------ ghosts
Range(s) == {s[i] : i \in DOMAIN s}

InTable(r) == \E k \in DOMAIN xchgs : xchgs[k] = r

Count(s, x) == Cardinality({i \in DOMAIN s : s[i] = x})

Returned(out, how) ==
  /\ ret' = [r \in DOMAIN ret |-> ret[r] + Count(out, r)]
  /\ st' = [r \in DOMAIN st |-> IF r \in Range(out) THEN how ELSE st[r]]

Result(err, out) == [err |-> err, out |-> out]

\* -------------------------------------------------------------------- Init
XInit ==
  /\ xchgs = << >>
  /\ reqs = << >>
  /\ now = 1
  /\ st = << >>
  /\ ret = << >>
  /\ last = Result(FALSE, << >>)
  /\ drained = FALSE

\* ----------------------------------------------------------------- actions
\* the request a caller builds for add: stamped with time.Now() or left unset,
\* with a fresh message and an empty single-slot delivery channel
NewRequest(id, name, ts) ==
  [ID |-> id, Name |-> name, Timestamp |-> ts, Rcode |-> RcodeSuccess, Result |-> << >>]

AddOverwrites(m, key, r) == [xchgs |-> MapSet(m, key, r), err |-> Found(m, key)]

\* xchgMgr.add: the table after add(req), req being record r, and the error
AddToTable(m, key, r) ==
  IF Found(m, key) THEN [xchgs |-> m, err |-> TRUE]
  ELSE [xchgs |-> MapSet(m, key, r), err |-> FALSE]

add(req) ==
  /\ Len(reqs) < MaxReqs
  /\ LET r == Len(reqs) + 1
         a == AddToTable(xchgs, xchgKey(req.ID, req.Name), r) IN
       /\ xchgs' = a.xchgs
       /\ last' = Result(a.err, << >>)
       /\ IF \E k \in DOMAIN a.xchgs : a.xchgs[k] = r
          THEN reqs' = Append(reqs, req) /\ st' = Append(st, "in") /\ ret' = Append(ret, 0)
          ELSE UNCHANGED <<reqs, st, ret>>
  /\ UNCHANGED <<now, drained>>
  /\ UNCHANGED pvars

updateTimestampAll(id, name) ==
  /\ LET key == xchgKey(id, name) IN
       IF ~Found(xchgs, key)
       THEN UNCHANGED reqs
       ELSE reqs' = [r \in DOMAIN reqs |->
                       IF InTable(r) THEN [reqs[r] EXCEPT !.Timestamp = now] ELSE reqs[r]]
  /\ last' = Result(FALSE, << >>)
  /\ UNCHANGED <<xchgs, now, st, ret, drained>>
  /\ UNCHANGED pvars

updateTimestamp(id, name) ==
  /\ LET key == xchgKey(id, name) IN
       IF ~Found(xchgs, key)
       THEN UNCHANGED reqs
       ELSE reqs' = [reqs EXCEPT ![xchgs[key]].Timestamp = now]
  /\ last' = Result(FALSE, << >>)
  /\ UNCHANGED <<xchgs, now, st, ret, drained>>
  /\ UNCHANGED pvars

remove(id, name) ==
  /\ LET key == xchgKey(id, name) IN
       IF Found(xchgs, key)
       THEN LET d == delete(xchgs, <<key>>) IN
              /\ xchgs' = d.xchgs
              /\ last' = Result(FALSE, <<d.removed[1]>>)
              /\ Returned(<<d.removed[1]>>, "matched")
       ELSE /\ last' = Result(FALSE, <<NIL>>)
            /\ UNCHANGED <<xchgs, st, ret>>
  /\ UNCHANGED <<reqs, now, drained>>
  /\ UNCHANGED pvars

removeExpired ==
  /\ \E keys \in Orders(ExpiredKeys(xchgs, now)) :
       LET d == delete(xchgs, keys) IN
         /\ xchgs' = d.xchgs
         /\ last' = Result(FALSE, d.removed)
         /\ Returned(d.removed, "swept")
  /\ UNCHANGED <<reqs, now, drained>>
  /\ UNCHANGED pvars

\* removeAll is the shutdown drain
removeAll ==
  /\ \E keys \in Orders(AllKeys(xchgs)) :
       LET d == delete(xchgs, keys) IN
         /\ xchgs' = d.xchgs
         /\ last' = Result(FALSE, d.removed)
         /\ Returned(d.removed, "swept")
  /\ drained' = TRUE
  /\ UNCHANGED <<reqs, now>>
  /\ UNCHANGED pvars

errNoResponseKeepsRcode(r) ==
  /\ r \in DOMAIN reqs
  /\ st[r] = "swept"
  /\ Len(reqs[r].Result) < ChanCap
  /\ reqs' = [reqs EXCEPT ![r].Result = Append(@, r)]
  /\ st' = [st EXCEPT ![r] = "done"]
  /\ UNCHANGED <<xchgs, now, ret, last, drained>>
  /\ UNCHANGED pvars

\* request.errNoResponse, applied by the caller of a sweep to a record it got;
\* the send blocks while the channel is full
errNoResponse(r) ==
  /\ r \in DOMAIN reqs
  /\ st[r] = "swept"
  /\ Len(reqs[r].Result) < ChanCap
  /\ reqs' = [reqs EXCEPT ![r].Rcode = RcodeNoResponse,
                          ![r].Result = Append(@, r)]
  /\ st' = [st EXCEPT ![r] = "done"]
  /\ UNCHANGED <<xchgs, now, ret, last, drained>>
  /\ UNCHANGED pvars

Tick ==
  /\ now < MaxTime
  /\ now' = now + 1
  /\ UNCHANGED <<xchgs, reqs, st, ret, last, drained>>
  /\ UNCHANGED pvars

XNext ==
  \/ \E id \in IDs, name \in Names, ts \in {ZeroTime, now} : add(NewRequest(id, name, ts))
  \/ \E id \in IDs, name \in LookupNames : updateTimestamp(id, name)
  \/ \E id \in IDs, name \in LookupNames : remove(id, name)
  \/ removeExpired
  \/ removeAll
  \/ \E r \in DOMAIN reqs : errNoResponse(r)
  \/ Tick


\* ======================================================== connection pool
NewSock == [done |-> FALSE, closed |-> FALSE, loop |-> "check", timer |-> "none", ntasks |-> 0]

\* connections.Add: ok is whether the host opened the socket
AddConn(c, ss, ok) ==
  IF ok THEN [conns |-> Append(c, Len(ss) + 1), socks |-> Append(ss, NewSock), err |-> FALSE]
  ELSE [conns |-> c, socks |-> ss, err |-> TRUE]

\* the loop of rotate(): one Add per outcome, errors dropped
RECURSIVE AddAll(_, _, _)
AddAll(c, ss, oks) ==
  IF oks = << >> THEN [conns |-> c, socks |-> ss]
  ELSE LET a == AddConn(c, ss, Head(oks)) IN AddAll(a.conns, a.socks, Tail(oks))

Opened(oks) == Cardinality({i \in DOMAIN oks : oks[i]})

\* close(ch) on a channel: closing a closed channel panics
ClosePanics(isClosed) == isClosed

\* what a Next or WriteMsg call returned, and how many Next calls and write
\* attempts it made
Outcome(op, conn, err, nextCalls, writes) ==
  [op |-> op, conn |-> conn, err |-> err, nextCalls |-> nextCalls, writes |-> writes]

PInit ==
  /\ ctor = "new"
  /\ mu = "free"
  /\ cpus = 0
  /\ conns = << >>
  /\ connsNil = TRUE
  /\ nextWrite = 0
  /\ poolDone = FALSE
  /\ socks = << >>
  /\ rot = "off"
  /\ resps = << >>
  /\ ndgram = 0
  /\ panicked = ""
  /\ nexts = << >>
  /\ closed = FALSE
  /\ plast = Outcome("none", NIL, FALSE, 0, 0)

\* newConnections, up to the loop: the struct is built and the lock taken
CtorStart(n) ==
  /\ ctor = "new"
  /\ ctor' = "adding"
  /\ cpus' = n
  /\ mu' = "ctor"
  /\ UNCHANGED <<conns, connsNil, nextWrite, poolDone, socks, rot, resps, ndgram,
                 panicked, nexts, closed, plast>>
  /\ UNCHANGED xvars

\* newConnections, one turn of the loop: Add, and on its error the call of Close
CtorAdd(ok) ==
  /\ ctor = "adding"
  /\ Len(conns) < cpus
  /\ ok => Len(socks) < MaxSocks
  /\ LET a == AddConn(conns, socks, ok) IN
       /\ conns' = a.conns
       /\ socks' = a.socks
       /\ connsNil' = (connsNil /\ a.err)
       /\ ctor' = IF a.err THEN "closing" ELSE "adding"
  /\ UNCHANGED <<mu, cpus, nextWrite, poolDone, rot, resps, ndgram, panicked, nexts,
                 closed, plast>>
  /\ UNCHANGED xvars

\* newConnections, after the loop: go conns.rotations(); return conns (unlocks)
CtorReturn ==
  /\ ctor = "adding"
  /\ Len(conns) = cpus
  /\ ctor' = "returned"
  /\ rot' = "select"
  /\ mu' = "free"
  /\ UNCHANGED <<cpus, conns, connsNil, nextWrite, poolDone, socks, resps, ndgram,
                 panicked, nexts, closed, plast>>
  /\ UNCHANGED xvars

\* connections.Close, called by a user of the pool or by newConnections.
\* r.Lock() waits for the mutex; sync.Mutex is not reentrant.
Close(p) ==
  /\ panicked = ""
  /\ \/ p = "user" /\ ctor = "returned"
     \/ p = "ctor" /\ ctor = "closing"
  /\ mu = "free"
  /\ IF connsNil
     THEN /\ closed' = TRUE
          /\ UNCHANGED <<poolDone, socks, conns, connsNil, panicked, nexts>>
     ELSE IF ClosePanics(poolDone) \/ \E i \in DOMAIN conns : ClosePanics(socks[conns[i]].done)
     THEN /\ panicked' = "close of closed channel"
          /\ UNCHANGED <<poolDone, socks, conns, connsNil, nexts, closed>>
     ELSE /\ poolDone' = TRUE
          /\ socks' = [s \in DOMAIN socks |->
                         IF s \in Range(conns) THEN [socks[s] EXCEPT !.done = TRUE]
                         ELSE socks[s]]
          /\ conns' = << >>
          /\ connsNil' = TRUE
          /\ nexts' = << >>
          /\ closed' = TRUE
          /\ UNCHANGED panicked
  /\ ctor' = IF p = "ctor" THEN "failed" ELSE ctor
  /\ UNCHANGED <<mu, cpus, nextWrite, rot, resps, ndgram, plast>>
  /\ UNCHANGED xvars

\* rotations(): the select takes the ticker's case and calls rotate()
RotTick ==
  /\ panicked = ""
  /\ rot = "select"
  /\ rot' = "rotate"
  /\ UNCHANGED <<ctor, mu, cpus, conns, connsNil, nextWrite, poolDone, socks, resps,
                 ndgram, panicked, nexts, closed, plast>>
  /\ UNCHANGED xvars

\* rotations(): the select takes <-r.done and the loop returns
RotExit ==
  /\ panicked = ""
  /\ rot = "select"
  /\ poolDone
  /\ rot' = "exit"
  /\ UNCHANGED <<ctor, mu, cpus, conns, connsNil, nextWrite, poolDone, socks, resps,
                 ndgram, panicked, nexts, closed, plast>>
  /\ UNCHANGED xvars

rotateKeepsOld(oks) ==
  /\ panicked = ""
  /\ rot = "rotate"
  /\ mu = "free"
  /\ Len(socks) + Opened(oks) <= MaxSocks
  /\ LET timed == [s \in DOMAIN socks |->
                     IF s \in Range(conns)
                     THEN [socks[s] EXCEPT !.timer = "sleep", !.ntasks = @ + 1]
                     ELSE socks[s]]
         a == AddAll(conns, timed, oks)
     IN /\ conns' = a.conns
        /\ socks' = a.socks
  /\ connsNil' = FALSE
  /\ nexts' = << >>
  /\ rot' = "select"
  /\ UNCHANGED <<ctor, mu, cpus, nextWrite, poolDone, resps, ndgram, panicked, closed, plast>>
  /\ UNCHANGED xvars

\* connections.rotate, from the lock to the return
rotate(oks) ==
  /\ panicked = ""
  /\ rot = "rotate"
  /\ mu = "free"
  /\ Len(socks) + Opened(oks) <= MaxSocks
  /\ LET timed == [s \in DOMAIN socks |->
                     IF s \in Range(conns)
                     THEN [socks[s] EXCEPT !.timer = "sleep", !.ntasks = @ + 1]
                     ELSE socks[s]]
         a == AddAll(<< >>, timed, oks)
     IN /\ conns' = a.conns
        /\ socks' = a.socks
  /\ connsNil' = FALSE
  /\ nexts' = << >>
  /\ rot' = "select"
  /\ UNCHANGED <<ctor, mu, cpus, nextWrite, poolDone, resps, ndgram, panicked, closed, plast>>
  /\ UNCHANGED xvars

\* the delayed-close task of rotate(): <-t.C after the grace period
TimerFires(s) ==
  /\ panicked = ""
  /\ socks[s].timer = "sleep"
  /\ socks' = [socks EXCEPT ![s].timer = "rung"]
  /\ UNCHANGED <<ctor, mu, cpus, conns, connsNil, nextWrite, poolDone, rot, resps, ndgram,
                 panicked, nexts, closed, plast>>
  /\ UNCHANGED xvars

\* the delayed-close task of rotate(): close(c.done)
TaskCloses(s) ==
  /\ panicked = ""
  /\ socks[s].timer = "rung"
  /\ IF ClosePanics(socks[s].done)
     THEN panicked' = "close of closed channel" /\ UNCHANGED socks
     ELSE socks' = [socks EXCEPT ![s].timer = "over", ![s].done = TRUE] /\ UNCHANGED panicked
  /\ UNCHANGED <<ctor, mu, cpus, conns, connsNil, nextWrite, poolDone, rot, resps, ndgram,
                 nexts, closed, plast>>
  /\ UNCHANGED xvars

\* responses(c): the select at the top of the loop
LoopCheck(s) ==
  /\ panicked = ""
  /\ socks[s].loop = "check"
  /\ socks' = IF socks[s].done
              THEN [socks EXCEPT ![s].closed = TRUE, ![s].loop = "exit"]
              ELSE [socks EXCEPT ![s].loop = "read"]
  /\ UNCHANGED <<ctor, mu, cpus, conns, connsNil, nextWrite, poolDone, rot, resps, ndgram,
                 panicked, nexts, closed, plast>>
  /\ UNCHANGED xvars

\* what ReadFrom and Unpack make of a datagram
Dgrams == [err : BOOLEAN, n : {headerSize - 1, headerSize}, unpackErr : BOOLEAN, nq : {0, 1}]

AcceptedAnyQuestions(d) == ~d.err /\ d.n >= headerSize /\ ~d.unpackErr

Accepted(d) == ~d.err /\ d.n >= headerSize /\ ~d.unpackErr /\ d.nq > 0

\* responses(c): ReadFrom returns (the deadline is cleared, so only on a
\* datagram or an error), and the rest of the loop body
Receive(s, d) ==
  /\ panicked = ""
  /\ socks[s].loop = "read"
  /\ ndgram < MaxDgrams
  /\ ndgram' = ndgram + 1
  /\ resps' = IF Accepted(d) THEN Append(resps, [sock |-> s, dgram |-> ndgram + 1]) ELSE resps
  /\ socks' = [socks EXCEPT ![s].loop = "check"]
  /\ UNCHANGED <<ctor, mu, cpus, conns, connsNil, nextWrite, poolDone, rot, panicked,
                 nexts, closed, plast>>
  /\ UNCHANGED xvars

\* connections.Next on sequence c (absent when isNil) with cursor nw
NextResult(c, isNil, nw) ==
  IF isNil \/ Len(c) = 0 THEN [conn |-> NIL, nextWrite |-> nw, panic |-> FALSE]
  ELSE [conn |-> IF nw < Len(c) THEN c[nw + 1] ELSE NIL,
        nextWrite |-> (nw + 1) % Len(c),
        panic |-> nw >= Len(c)]

Next ==
  /\ panicked = ""
  /\ ctor = "returned"
  /\ mu = "free"
  /\ Len(nexts) < MaxNexts
  /\ LET n == NextResult(conns, connsNil, nextWrite) IN
       /\ nextWrite' = n.nextWrite
       /\ panicked' = IF n.panic THEN "index out of range" ELSE panicked
       /\ nexts' = IF n.conn = NIL THEN nexts ELSE Append(nexts, n.conn)
       /\ plast' = IF n.panic THEN plast ELSE Outcome("Next", n.conn, FALSE, 1, 0)
  /\ UNCHANGED <<ctor, mu, cpus, conns, connsNil, poolDone, socks, rot, resps, ndgram, closed>>
  /\ UNCHANGED xvars

\* the packed query (msg.Pack succeeded): a header and no more
PackedLen == headerSize

\* what conn.WriteTo returns: an error or not, and the bytes written
Writes == [err : BOOLEAN, n : {PackedLen - 1, PackedLen}]

\* connections.WriteMsg: packErr is msg.Pack failing, wr what WriteTo returns.
\* A panic inside Next ends the call without a result.
WriteMsg(packErr, wr) ==
  /\ panicked = ""
  /\ ctor = "returned"
  /\ mu = "free"
  /\ Len(nexts) < MaxNexts
  /\ IF packErr
     THEN /\ plast' = Outcome("WriteMsg", NIL, TRUE, 0, 0)
          /\ UNCHANGED <<nextWrite, panicked, nexts>>
     ELSE LET n == NextResult(conns, connsNil, nextWrite) IN
            /\ nextWrite' = n.nextWrite
            /\ panicked' = IF n.panic THEN "index out of range" ELSE panicked
            /\ nexts' = IF n.conn = NIL THEN nexts ELSE Append(nexts, n.conn)
            /\ plast' = IF n.panic THEN plast
                        ELSE IF n.conn = NIL THEN Outcome("WriteMsg", NIL, TRUE, 1, 0)
                        ELSE Outcome("WriteMsg", n.conn, wr.err \/ wr.n < PackedLen, 1, 1)
  /\ UNCHANGED <<ctor, mu, cpus, conns, connsNil, poolDone, socks, rot, resps, ndgram, closed>>
  /\ UNCHANGED xvars

PNext ==
  \/ \E n \in 0..MaxCpus : CtorStart(n)
  \/ \E ok \in BOOLEAN : CtorAdd(ok)
  \/ CtorReturn
  \/ \E p \in {"user", "ctor"} : Close(p)
  \/ RotTick
  \/ RotExit
  \/ \E oks \in [1..cpus -> BOOLEAN] : rotate(oks)
  \/ \E s \in DOMAIN socks : TimerFires(s)
  \/ \E s \in DOMAIN socks : TaskCloses(s)
  \/ Next
  \/ \E packErr \in BOOLEAN, wr \in Writes : WriteMsg(packErr, wr)

\* ---------------------------------------------------------- specifications
Init == XInit /\ PInit

XchgSpec == Init /\ [][XNext]_vars

\* Scheduling the callers guarantee: shutdown runs its drain, and the caller of
\* a sweep resolves every record it was handed.  Nothing makes the dispatcher
\* call remove or removeExpired again.
XchgLive ==
  /\ XchgSpec
  /\ WF_vars(~drained /\ removeAll)
  /\ \A r \in 1..MaxReqs : WF_vars(errNoResponse(r))

\* The table under names in several spellings: registrations without a
\* timestamp, refreshes and removals.
KNext ==
  \/ \E id \in KeyIDs, name \in KeyAddNames : add(NewRequest(id, name, ZeroTime))
  \/ \E id \in KeyIDs, name \in KeyLookupNames : updateTimestamp(id, name)
  \/ \E id \in KeyIDs, name \in KeyLookupNames : remove(id, name)

KeySpec == Init /\ [][KNext]_vars

PoolSpec == Init /\ [][PNext]_vars

\* Scheduling of the rotation goroutine: a call of rotate() gets the pool lock
\* when it stays free, and a select that finds <-r.done ready again and again
\* takes it in the end (the ticker is ready once a minute only).
PoolLive ==
  /\ PoolSpec
  /\ SF_vars(RotExit)
  /\ WF_vars(\E oks \in [1..cpus -> BOOLEAN] : rotate(oks))

\* The read loops of a pool of one socket, through its first rotations: the
\* sockets of two generations read side by side.
RNext ==
  \/ CtorStart(1)
  \/ \E ok \in BOOLEAN : CtorAdd(ok)
  \/ CtorReturn
  \/ Close("user")
  \/ RotTick
  \/ RotExit
  \/ Len(socks) < MaxLoopSocks /\ \E oks \in [1..cpus -> BOOLEAN] : rotate(oks)
  \/ \E s \in DOMAIN socks : TimerFires(s)
  \/ \E s \in DOMAIN socks : TaskCloses(s)
  \/ \E s \in DOMAIN socks : LoopCheck(s)
  \/ \E s \in DOMAIN socks, d \in Dgrams : Receive(s, d)

ReadSpec == Init /\ [][RNext]_vars

\* Scheduling of the goroutines: a read loop that can run its select does, and
\* so does a delayed-close task whose timer is due.  That a datagram arrives is
\* up to the network: Receive has no fairness.
ReadLive ==
  /\ ReadSpec
  /\ \A s \in 1..MaxSocks : WF_vars(s \in DOMAIN socks /\ LoopCheck(s))
  /\ \A s \in 1..MaxSocks : WF_vars(s \in DOMAIN socks /\ TimerFires(s))
  /\ \A s \in 1..MaxSocks : WF_vars(s \in DOMAIN socks /\ TaskCloses(s))

\* Rotation seen from the writers and from the rotated-out sockets: a pool of
\* MaxCpus sockets, its Next calls, delayed-close tasks and read loops.
GNext ==
  \/ CtorStart(MaxCpus)
  \/ \E ok \in BOOLEAN : CtorAdd(ok)
  \/ CtorReturn
  \/ Close("user")
  \/ RotTick
  \/ RotExit
  \/ Len(socks) <= MaxLoopSocks /\ \E oks \in [1..cpus -> BOOLEAN] : rotate(oks)
  \/ \E s \in DOMAIN socks : TimerFires(s)
  \/ \E s \in DOMAIN socks : TaskCloses(s)
  \/ \E s \in DOMAIN socks : LoopCheck(s)
  \/ Next

RotSpec == Init /\ [][GNext]_vars

\* ================================================================== claims
KeyOf(r) == xchgKey(reqs[r].ID, reqs[r].Name)

\* C2: every record that add inserted is returned by removal calls at most once
\* in total, by none while it is in the table and by exactly one once it has
\* left it; a record a sweep returned has exactly one delivery on its channel
\* once it is resolved, and none before.
C2_RemovedExactlyOnce ==
  \A r \in DOMAIN reqs :
    /\ ret[r] <= 1
    /\ InTable(r) => ret[r] = 0 /\ st[r] = "in"
    /\ ~InTable(r) => ret[r] = 1 /\ st[r] \in {"matched", "swept", "done"}
    /\ Len(reqs[r].Result) = (IF st[r] = "done" THEN 1 ELSE 0)

C2_Witness ==
  \E r1, r2 \in DOMAIN reqs :
    /\ st[r1] = "done" /\ reqs[r1].Result = <<r1>>
    /\ st[r2] = "matched"
    /\ ret[r1] = 1 /\ ret[r2] = 1

\* C4: an add whose key is present fails with the duplicate-key error and
\* leaves the table and the records unchanged; an add whose key is absent
\* succeeds and maps the key to the new record, other keys untouched; so of the
\* add calls with one key on a table that lacks it, in whatever order they take
\* the lock, the first succeeds and every later one fails.
C4_DuplicateAddRejected ==
  [][\A id \in IDs, name \in Names, ts \in {ZeroTime, now} :
       add(NewRequest(id, name, ts)) =>
         LET key == xchgKey(id, name) IN
           IF key \in DOMAIN xchgs
           THEN last'.err /\ xchgs' = xchgs /\ reqs' = reqs
           ELSE /\ ~last'.err
                /\ DOMAIN xchgs' = DOMAIN xchgs \cup {key}
                /\ xchgs'[key] = Len(reqs') /\ Len(reqs') = Len(reqs) + 1
                /\ reqs'[Len(reqs')] = NewRequest(id, name, ts)
                /\ \A k \in DOMAIN xchgs : xchgs'[k] = xchgs[k]]_vars

C4_Witness ==
  /\ last.err
  /\ \E k \in DOMAIN xchgs : reqs[xchgs[k]].Timestamp # now /\ st[xchgs[k]] = "in"

\* C5: remove of a present key returns the record stored under that key (the
\* one add inserted: its ID and name give that key) and deletes the key, other
\* keys untouched; remove of an absent key returns nil and leaves the table
\* unchanged; hence, until the next add, a second remove of the key returns nil.
C5_RemoveReturnsRecordOnce ==
  [][\A id \in IDs, name \in LookupNames :
       remove(id, name) =>
         LET key == xchgKey(id, name) IN
           IF key \in DOMAIN xchgs
           THEN /\ last'.out = <<xchgs[key]>>
                /\ KeyOf(xchgs[key]) = key
                /\ DOMAIN xchgs' = DOMAIN xchgs \ {key}
                /\ \A k \in DOMAIN xchgs' : xchgs'[k] = xchgs[k]
           ELSE /\ last'.out = <<NIL>>
                /\ xchgs' = xchgs /\ ret' = ret]_vars

C5_Witness ==
  /\ last.out = <<NIL>>
  /\ \E r \in DOMAIN reqs : st[r] = "matched" /\ KeyOf(r) \notin DOMAIN xchgs

\* C6: removeExpired at time now returns and deletes exactly the records with a
\* non-zero timestamp T and now > T + QueryTimeout, each once; every other
\* record stays in the table under its key, and no record is modified.
C6_ExpiredExactly ==
  [][removeExpired =>
       LET old == {xchgs[k] : k \in DOMAIN xchgs}
           due == {r \in old : reqs[r].Timestamp # 0
                                 /\ now > reqs[r].Timestamp + QueryTimeout}
       IN /\ Range(last'.out) = due
          /\ Len(last'.out) = Cardinality(due)
          /\ {xchgs'[k] : k \in DOMAIN xchgs'} = old \ due
          /\ \A k \in DOMAIN xchgs' : xchgs'[k] = xchgs[k]
          /\ \A r \in due : ret'[r] = 1
          /\ reqs' = reqs]_vars

C6_Witness ==
  /\ ~drained /\ Len(last.out) = 1 /\ last.out[1] # NIL /\ st[last.out[1]] = "swept"
  /\ \E k \in DOMAIN xchgs :
       /\ reqs[xchgs[k]].Timestamp # 0
       /\ now = reqs[xchgs[k]].Timestamp + QueryTimeout

\* C7: removeAll returns exactly the records of the table, each once and none
\* nil, whatever their timestamps, and leaves the table empty.
C7_RemoveAllDrains ==
  [][(drained' /\ removeAll) =>
       /\ Range(last'.out) = {xchgs[k] : k \in DOMAIN xchgs}
       /\ Len(last'.out) = Cardinality(DOMAIN xchgs)
       /\ NIL \notin Range(last'.out)
       /\ DOMAIN xchgs' = {}]_vars

C7_Witness ==
  /\ drained /\ Len(last.out) = 2
  /\ reqs[last.out[1]].Timestamp = ZeroTime
  /\ reqs[last.out[2]].Timestamp # ZeroTime
  /\ now <= reqs[last.out[2]].Timestamp + QueryTimeout

\* C9: every record that add inserted and that remove did not take out has,
\* in the end, a terminal delivery on its channel, given that shutdown runs
\* removeAll and resolves what it returns.
C9_EveryAddedRecordDelivered ==
  \A r \in 1..MaxReqs :
    [](r \in DOMAIN reqs => <>(r \in DOMAIN reqs /\ st[r] \in {"done", "matched"}))

\* C10: the expiry sweep returns every record whose non-zero timestamp is older
\* than the timeout; the no-response helper finds the record's channel empty,
\* sets its message's response code to 50 and delivers that message, once.
Due(r) == reqs[r].Timestamp # 0 /\ now - reqs[r].Timestamp > QueryTimeout

C10_TimeoutDeliversSentinel ==
  [][/\ removeExpired =>
          \A k \in DOMAIN xchgs : Due(xchgs[k]) =>
              st'[xchgs[k]] = "swept" /\ xchgs[k] \in Range(last'.out)
     /\ \A r \in DOMAIN reqs :
          /\ st'[r] = "swept" => reqs'[r].Result = << >>
          /\ (st'[r] = "done" /\ errNoResponse(r)) =>
               /\ reqs'[r].Rcode = 50
               /\ reqs'[r].Result = <<r>>
               /\ \A q \in DOMAIN reqs : q # r => reqs'[q] = reqs[q]]_vars

C10_Witness ==
  /\ ~drained
  /\ \E r \in DOMAIN reqs :
       r \in Range(last.out) /\ st[r] = "done" /\ reqs[r].Rcode = 50 /\ reqs[r].Result = <<r>>

\* C1: once a Close call has returned, the socket
\* sequence stays absent (it holds no socket), no socket is created, every Next call returns nil and
\* every WriteMsg call returns an error.
C1_ClosedStaysClosed ==
  [][closed =>
       /\ Len(conns') = 0
       /\ Len(socks') = Len(socks)
       /\ Next => plast'.conn = NIL
       /\ (\E packErr \in BOOLEAN, wr \in Writes : WriteMsg(packErr, wr))
             => plast'.err]_vars

\* C3: when an Add fails during construction, the constructor goes on (its call
\* of Close gets the lock) until it has returned failure, and then every socket
\* it created has its cancellation signal fired and no rotation loop runs.
C3_ConstructorFailsCleanly ==
  ctor \in {"closing", "failed"} =>
    \/ ctor = "closing" /\ ENABLED Close("ctor")
    \/ /\ ctor = "failed"
       /\ \A s \in DOMAIN socks : socks[s].done
       /\ rot = "off"

\* C8: on a pool holding N >= 1 sockets, the Next calls made since the sequence
\* last changed each returned a socket of the sequence, in round-robin order,
\* so any k*N consecutive ones returned every socket exactly k times.
PosIn(c, x) == CHOOSE i \in DOMAIN c : c[i] = x

C8_RoundRobin ==
  (~connsNil /\ Len(conns) > 0) =>
    LET N == Len(conns) IN
      /\ panicked # "index out of range"
      /\ \A i \in DOMAIN nexts : nexts[i] \in Range(conns)
      /\ \A i \in 1..(Len(nexts) - 1) :
           PosIn(conns, nexts[i + 1]) = (PosIn(conns, nexts[i]) % N) + 1
      /\ \A k \in 1..MaxNexts, i \in DOMAIN nexts :
           i + k * N - 1 <= Len(nexts) =>
             \A x \in Range(conns) :
               Cardinality({j \in i..(i + k * N - 1) : nexts[j] = x}) = k

\* C13: whenever the socket sequence is non-empty the write cursor is inside
\* it, 0 <= nextWrite < len(conns), so Next never indexes outside the sequence;
\* after any Next calls and rotations, also a rotation that opened fewer
\* sockets than the one before.
C13_CursorInRange ==
  (~connsNil /\ Len(conns) > 0) =>
    /\ nextWrite \in 0..(Len(conns) - 1)
    /\ panicked # "index out of range"

\* C14: no cancellation signal, a socket's or the pool's, is closed when it is
\* already closed, whatever the order of ticks, delayed-close tasks and Close
\* calls; and a Close call on a closed pool fires nothing and changes nothing.
C14_SignalsFireOnce ==
  /\ [](panicked # "close of closed channel")
  /\ [][(Close("user") /\ connsNil) =>
          UNCHANGED <<conns, connsNil, nextWrite, poolDone, socks, panicked>>]_vars

\* C16: while the pool is open, the sequence holds cpus sockets when the
\* constructor returns and when any rotation returns, whatever the outcomes of
\* the socket creations of that rotation.
C16_LengthIsTarget ==
  [][/\ CtorReturn => Len(conns') = cpus
     /\ \A oks \in [1..cpus -> BOOLEAN] :
          (~closed /\ rotate(oks)) => Len(conns') = cpus]_vars

\* C11: a WriteMsg call returns, and it returns no error only when packing
\* succeeded, Next gave it a socket, the write returned no error and wrote the
\* whole packed message; it makes at most one Next call and one write attempt,
\* and when packing fails it makes neither and leaves the cursor alone.
C11_WriteMsgContract ==
  [][\A packErr \in BOOLEAN, wr \in Writes :
       WriteMsg(packErr, wr) =>
         /\ panicked' = "" /\ plast'.op = "WriteMsg"
         /\ ~plast'.err <=> (~packErr /\ plast'.conn # NIL /\ ~wr.err /\ wr.n >= PackedLen)
         /\ plast'.nextCalls <= 1 /\ plast'.writes <= 1
         /\ plast'.writes = 1 => plast'.conn # NIL
         /\ packErr => /\ plast'.nextCalls = 0 /\ plast'.writes = 0
                       /\ nextWrite' = nextWrite /\ nexts' = nexts]_vars

\* C20: on a pool the constructor returned, of any target size, once a Close
\* call has returned the rotation loop exits in the end, and no rotation runs
\* after that return.
C20_RotationLoopExits ==
  /\ [](closed => <>(rot = "exit"))
  /\ [][closed => ~(\E oks \in [1..cpus -> BOOLEAN] : rotate(oks))]_vars

\* C12: a datagram that is shorter than the header, does not unpack or has no
\* question adds nothing to the output queue, and the loop goes on to its next
\* check; an accepted one adds exactly one envelope, at the end of the queue;
\* the envelopes of one socket are in the queue in the order of their receipt.
C12_ReadLoopFilters ==
  /\ [](\A i, j \in DOMAIN resps :
          (i < j /\ resps[i].sock = resps[j].sock) => resps[i].dgram < resps[j].dgram)
  /\ [][\A s \in DOMAIN socks, d \in Dgrams :
          Receive(s, d) =>
            /\ socks'[s].loop = "check" /\ ~socks'[s].closed /\ panicked' = ""
            /\ IF d.err \/ d.n < 12 \/ d.unpackErr \/ d.nq = 0
               THEN resps' = resps
               ELSE /\ Len(resps') = Len(resps) + 1
                    /\ SubSeq(resps', 1, Len(resps)) = resps
                    /\ resps'[Len(resps')] = [sock |-> s, dgram |-> ndgram']]_vars

C12_Witness ==
  /\ ndgram = 2 /\ Len(resps) = 1 /\ resps[1].dgram = 2
  /\ socks[resps[1].sock].loop = "read"

\* C15: a socket whose cancellation signal has fired is closed by its read loop
\* and the loop exits, in the end, whether or not another datagram arrives
\* (in a process that a panic has not ended).
C15_SignalledLoopExits ==
  \A s \in 1..MaxSocks :
    []((s \in DOMAIN socks /\ socks[s].done) =>
         <>(\/ s \in DOMAIN socks /\ socks[s].closed /\ socks[s].loop = "exit"
            \/ panicked # ""))

\* C17: a rotation replaces the sequence by sockets it has just created, in the
\* one step that holds the lock, so a Next call after it never returns a socket
\* of an earlier generation; every socket it takes out gets one delayed-close
\* task, which closes the socket's signal only once its timer has rung, and
\* until then the socket is neither signalled nor closed and its loop runs.
C17_RotationReplaces ==
  /\ [](\A s \in DOMAIN socks :
          /\ socks[s].ntasks <= 1
          /\ socks[s].timer \in {"sleep", "rung"} =>
                ~socks[s].done /\ ~socks[s].closed /\ socks[s].loop # "exit")
  /\ [][/\ \A oks \in [1..cpus -> BOOLEAN] :
            rotate(oks) =>
              /\ Range(conns') \cap Range(conns) = {}
              /\ \A c \in Range(conns') : c \notin DOMAIN socks /\ socks'[c] = NewSock
              /\ \A s \in Range(conns) :
                   socks'[s] = [socks[s] EXCEPT !.timer = "sleep", !.ntasks = 1]
        /\ Next => \A i \in DOMAIN nexts' :
                     nexts'[i] \in Range(conns) /\ socks[nexts'[i]].ntasks = 0
        /\ \A s \in DOMAIN socks :
             (socks[s].ntasks > 0 /\ ~socks[s].done /\ socks'[s].done) =>
               socks[s].timer = "rung"]_vars

C17_Witness ==
  \E s, t \in DOMAIN socks :
    /\ socks[s].ntasks = 1 /\ socks[s].timer = "over" /\ socks[s].done /\ socks[s].closed
    /\ socks[t].ntasks = 1 /\ socks[t].timer = "sleep" /\ socks[t].loop = "read"
    /\ Len(nexts) >= 2 /\ nexts[1] # nexts[2]
    /\ \A i \in DOMAIN nexts : socks[nexts[i]].ntasks = 0

\* C18: updateTimestamp on a present key sets that record's timestamp to the
\* current time and nothing else: same keys, same records under them, every
\* other field and record as before, no error; the timestamp is then non-zero,
\* so the record can expire, and removeExpired returns a record only when the
\* time is strictly more than the timeout past its (refreshed) timestamp; on an
\* absent key nothing changes and no error is reported.
C18_RefreshOnlyTimestamp ==
  [][/\ \A id \in IDs, name \in LookupNames :
          updateTimestamp(id, name) =>
            LET key == xchgKey(id, name) IN
              /\ xchgs' = xchgs /\ ~last'.err /\ st' = st /\ ret' = ret
              /\ DOMAIN reqs' = DOMAIN reqs
              /\ IF key \in DOMAIN xchgs
                 THEN /\ reqs'[xchgs[key]].Timestamp = now
                      /\ reqs'[xchgs[key]].Timestamp # ZeroTime
                      /\ \A r \in DOMAIN reqs :
                           /\ r # xchgs[key] => reqs'[r] = reqs[r]
                           /\ reqs'[r].ID = reqs[r].ID /\ reqs'[r].Name = reqs[r].Name
                           /\ reqs'[r].Rcode = reqs[r].Rcode
                           /\ reqs'[r].Result = reqs[r].Result
                 ELSE reqs' = reqs
     /\ removeExpired =>
          \A i \in DOMAIN last'.out :
            now - reqs[last'.out[i]].Timestamp > QueryTimeout]_vars

C18_Witness ==
  /\ ~drained
  /\ \E r1, r2 \in DOMAIN reqs :
       /\ r1 < r2 /\ last.out = <<r2>> /\ st[r2] = "swept" /\ st[r1] = "in"
       /\ reqs[r2].Timestamp # ZeroTime
       /\ reqs[r1].Timestamp > reqs[r2].Timestamp

\* C19: two (ID, name) pairs have the same key exactly when the IDs are equal
\* and the names are equal once one trailing dot is stripped and the letters
\* are lowered; so add fails exactly when a record of the table is the same
\* entry, remove returns exactly the record that is the same entry (nil when
\* there is none), and updateTimestamp stamps that record and no other.
SameEntry(id1, name1, id2, name2) ==
  id1 = id2 /\ ToLower(RemoveLastDot(name1)) = ToLower(RemoveLastDot(name2))

Held(id, name) ==
  {r \in DOMAIN reqs : InTable(r) /\ SameEntry(reqs[r].ID, reqs[r].Name, id, name)}

C19_KeyEquivalence ==
  /\ [](\A id1, id2 \in KeyIDs, name1, name2 \in KeyAddNames \cup KeyLookupNames :
          (xchgKey(id1, name1) = xchgKey(id2, name2)) <=> SameEntry(id1, name1, id2, name2))
  /\ [][/\ \A id \in KeyIDs, name \in KeyAddNames :
            add(NewRequest(id, name, ZeroTime)) => (last'.err <=> Held(id, name) # {})
        /\ \A id \in KeyIDs, name \in KeyLookupNames :
            /\ remove(id, name) =>
                 \A held \in {Held(id, name)} :
                   /\ Cardinality(held) <= 1
                   /\ \A r \in held : last'.out = <<r>> /\ ~InTable(r)'
                   /\ held = {} => last'.out = <<NIL>> /\ xchgs' = xchgs
            /\ updateTimestamp(id, name) =>
                 \A held \in {Held(id, name)} :
                   \A r \in DOMAIN reqs :
                     IF r \in held THEN reqs'[r].Timestamp = now
                     ELSE reqs'[r] = reqs[r]]_vars

C19_Witness ==
  \E r1, r2 \in DOMAIN reqs :
    /\ reqs[r1].Name = <<"A", ".">> /\ st[r1] = "matched"
    /\ reqs[r2].Name = <<"a">> /\ reqs[r2].ID = reqs[r1].ID
    /\ reqs[r2].Timestamp # ZeroTime /\ st[r2] = "in"

====
